---- MODULE Spec2Model ----
(***************************************************************************)
(* A model of the cibola JSON parser (src/src/parse.rs, src/src/json.rs).  *)
(*                                                                         *)
(* ParseContext is a byte cursor over the input text.  The recursive       *)
(* descent of the Rust code is modelled with an explicit call stack: one   *)
(* frame per active function call, one action per straight-line piece of   *)
(* a function (from one call or loop head to the next).  Leaf helpers      *)
(* (current_byte, accept, skip_control_chars, skip_comma, eat, fail) are   *)
(* operators evaluated inside the action of the function that calls them.  *)
(* Bytes are integers 0..255; index is 0-based as in the code, so the byte *)
(* under the cursor is bytes[index + 1].                                   *)
(***************************************************************************)
EXTENDS Integers, Sequences, FiniteSets, TLC

VARIABLES
    bytes,      \* ParseContext.bytes: the input text
    index,      \* ParseContext.index: the cursor
    buffers,    \* ParseContext.buffers: storage of the escaped strings
    stack,      \* the call stack, innermost call last
    ret,        \* the Result the last finished call returned
    steps,      \* number of steps taken so far (history variable)
    failedAt,   \* the cursor when fail() was last called, -1 before (history variable)
    rootValue,  \* the Result value() gave to parse() (history variable)
    ref         \* what the input was generated from (history variable)

vars == <<bytes, index, buffers, stack, ret, steps, failedAt, rootValue, ref>>

(***************************************************************************)
(* Bytes the parser names.                                                 *)
(***************************************************************************)
ch == [ quote |-> 34, plus |-> 43, comma |-> 44, minus |-> 45, dot |-> 46,
        slash |-> 47, zero |-> 48, nine |-> 57, colon |-> 58,
        upperE |-> 69, lbracket |-> 91, bslash |-> 92, rbracket |-> 93,
        a |-> 97, b |-> 98, e |-> 101, f |-> 102, l |-> 108, n |-> 110,
        r |-> 114, s |-> 115, t |-> 116, u |-> 117, x |-> 120,
        lbrace |-> 123, rbrace |-> 125,
        space |-> 32, tab |-> 9, lf |-> 10, cr |-> 13, bs |-> 8, ff |-> 12 ]

StrTrue  == <<ch.t, ch.r, ch.u, ch.e>>
StrFalse == <<ch.f, ch.a, ch.l, ch.s, ch.e>>
StrNull  == <<ch.n, ch.u, ch.l, ch.l>>

(***************************************************************************)
(* JSONValue.  Every value is a record with the same fields, so that any   *)
(* two values can be compared; tag selects the variant and the field that  *)
(* carries its payload.  A Number is <<m, e>> standing for m * 10^e with   *)
(* m not divisible by 10 (0 is <<0, 0>>).  The same record shape carries   *)
(* the intermediate results: "str" (String / &str), "vec" (Vec<JSONValue>),*)
(* "map" (HashMap<String, JSONValue>), "pair" ((String, JSONValue)) and    *)
(* "unit" (()).                                                            *)
(***************************************************************************)
V(t, bo, nu, st, it, fi) ==
    [tag |-> t, b |-> bo, num |-> nu, str |-> st, items |-> it, fields |-> fi]

JObject(fields) == V("Object", FALSE, <<0, 0>>, <<>>, <<>>, fields)
JArray(items)   == V("Array", FALSE, <<0, 0>>, <<>>, items, <<>>)
JBool(bo)       == V("Bool", bo, <<0, 0>>, <<>>, <<>>, <<>>)
JText(st)       == V("Text", FALSE, <<0, 0>>, st, <<>>, <<>>)
JNumber(nu)     == V("Number", FALSE, nu, <<>>, <<>>, <<>>)
JNull           == V("Null", FALSE, <<0, 0>>, <<>>, <<>>, <<>>)

PStr(st)        == V("str", FALSE, <<0, 0>>, st, <<>>, <<>>)
PVec(items)     == V("vec", FALSE, <<0, 0>>, <<>>, items, <<>>)
PMap(fields)    == V("map", FALSE, <<0, 0>>, <<>>, <<>>, fields)
PPair(id, val)  == V("pair", FALSE, <<0, 0>>, id, <<val>>, <<>>)
PUnit           == V("unit", FALSE, <<0, 0>>, <<>>, <<>>, <<>>)

(***************************************************************************)
(* Error and Result<T>.  kind "Panic" is not a Result: it stands for the   *)
(* thread unwinding out of the parse call.                                 *)
(***************************************************************************)
NoError       == [kind |-> "None", line |-> 0, col |-> 0, token |-> 0]
EndOfStream   == [kind |-> "EndOfStream", line |-> 0, col |-> 0, token |-> 0]
InvalidJSON   == [kind |-> "InvalidJSON", line |-> 0, col |-> 0, token |-> 0]
UnexpectedCharacter(line, col, token) ==
    [kind |-> "UnexpectedCharacter", line |-> line, col |-> col, token |-> token]

Ok(v)   == [kind |-> "Ok", err |-> NoError, val |-> v]
Err(er) == [kind |-> "Err", err |-> er, val |-> PUnit]
NoRet   == [kind |-> "None", err |-> NoError, val |-> PUnit]
Panic   == [kind |-> "Panic", err |-> NoError, val |-> PUnit]

\* fn fail: line and col are set to 0 and never updated, token is ' '
Fail == Err(UnexpectedCharacter(0, 0, ch.space))

(***************************************************************************)
(* Leaf helpers of ParseContext.                                           *)
(***************************************************************************)
\* fn current_byte: Ok(ByteAt(i)) if HasByte(i), Err(EndOfStream) otherwise
HasByte(i) == i < Len(bytes)
ByteAt(i)  == bytes[i + 1]

IsControlChar(c) == c \in {ch.lf, ch.cr, ch.tab, ch.space}

\* fn skip_control_chars: the index after the run of '\n' '\r' '\t' ' '
RECURSIVE SkipControlChars(_)
SkipControlChars(i) ==
    IF HasByte(i) /\ IsControlChar(ByteAt(i)) THEN SkipControlChars(i + 1) ELSE i

\* (mutant) a second ',' in a row is skipped as well
SkipComma_Twice(i) ==
    IF HasByte(i) /\ ByteAt(i) = ch.comma
    THEN IF HasByte(i + 1) /\ ByteAt(i + 1) = ch.comma THEN i + 2 ELSE i + 1
    ELSE i

\* fn skip_comma: the index after at most one ','
SkipComma(i) == IF HasByte(i) /\ ByteAt(i) = ch.comma THEN i + 1 ELSE i

\* fn eat: the Result and the index after it
Eat(i, token) ==
    IF ~HasByte(i) THEN [res |-> Err(EndOfStream), index |-> i]
    ELSE IF ByteAt(i) = token THEN [res |-> Ok(PUnit), index |-> i + 1]
    ELSE [res |-> Fail, index |-> i]

\* &self.bytes[from..to] (0-based, to exclusive), for 0 <= from <= to <= len
Slice(from, to) == SubSeq(bytes, from + 1, to)

(***************************************************************************)
(* The call stack.                                                         *)
(***************************************************************************)
Running  == Len(stack) > 0
Top      == stack[Len(stack)]
Rest     == SubSeq(stack, 1, Len(stack) - 1)
At(fn, pc) == Running /\ Top.fn = fn /\ Top.pc = pc

Frame(fn, pc) ==
    [fn |-> fn, pc |-> pc, arg |-> <<>>, start |-> 0, acc |-> PUnit]

\* the running call moves on to pc / keeps state f
Goto(f)      == Rest \o <<f>>
\* the running call becomes f and calls g
Call(f, g)   == Rest \o <<f, g>>

\* one step of the parse: the new stack, result register and cursor.
\* A step that calls fail() turns the result register into Fail with the
\* cursor where fail() was called; an error is passed on without a change.
Step(newStack, newRet, newIndex) ==
    /\ stack' = newStack
    /\ ret' = newRet
    /\ index' = newIndex
    /\ steps' = steps + 1
    /\ failedAt' = IF newRet = Fail /\ ret # Fail THEN newIndex ELSE failedAt
    /\ rootValue' = IF At("parse", "ret") THEN ret ELSE rootValue
    /\ UNCHANGED <<bytes, ref>>

\* the running call returns r with the cursor at i
Return(r, i) == Step(Rest, r, i) /\ UNCHANGED buffers
\* a panic unwinds every frame
Unwind       == Step(<<>>, Panic, index) /\ UNCHANGED buffers

(***************************************************************************)
(* lexical_core::try_atof64_slice, the checked string-to-f64 conversion    *)
(* number() hands the scanned bytes to.  A text of the form                *)
(*     -? digits (. digits)? ((e|E) (+|-)? digits)?                        *)
(* converts to its value.  A text that departs from that form only by an   *)
(* empty digit group ("1.", ".5", "1e", "1e-") is accepted by some         *)
(* versions of the library and rejected by others: both outcomes are kept. *)
(* Any other text is an error.                                             *)
(***************************************************************************)
IsDigit(c) == c >= ch.zero /\ c <= ch.nine

\* the first position >= i of s that holds no digit
RECURSIVE DigitsEnd(_, _)
DigitsEnd(s, i) ==
    IF i <= Len(s) /\ IsDigit(s[i]) THEN DigitsEnd(s, i + 1) ELSE i

\* the number written by the digits s[i..j-1] (0 for no digits)
RECURSIVE DigitsValue(_, _, _)
DigitsValue(s, i, j) ==
    IF j <= i THEN 0 ELSE DigitsValue(s, i, j - 1) * 10 + (s[j - 1] - ch.zero)

RECURSIVE Pow10(_)
Pow10(k) == IF k <= 0 THEN 1 ELSE 10 * Pow10(k - 1)

\* <<m, e>> with m * 10^e unchanged and m not divisible by 10
RECURSIVE Normalize(_, _)
Normalize(m, e) ==
    IF m = 0 THEN <<0, 0>>
    ELSE IF m % 10 = 0 THEN Normalize(m \div 10, e + 1)
    ELSE <<m, e>>

\* where the parts of a float text lie in s
FloatParts(s) ==
    LET neg  == Len(s) >= 1 /\ s[1] = ch.minus
        i1   == IF neg THEN 2 ELSE 1
        i2   == DigitsEnd(s, i1)
        dot  == i2 <= Len(s) /\ s[i2] = ch.dot
        f1   == IF dot THEN i2 + 1 ELSE i2
        i3   == DigitsEnd(s, f1)
        ex   == i3 <= Len(s) /\ s[i3] \in {ch.e, ch.upperE}
        sg   == ex /\ i3 + 1 <= Len(s) /\ s[i3 + 1] \in {ch.minus, ch.plus}
        x1   == IF ex THEN (IF sg THEN i3 + 2 ELSE i3 + 1) ELSE i3
        i5   == DigitsEnd(s, x1)
    IN  [neg |-> neg, i1 |-> i1, i2 |-> i2, dot |-> dot, f1 |-> f1, i3 |-> i3,
         ex |-> ex, xneg |-> sg /\ s[i3 + 1] = ch.minus, x1 |-> x1, i5 |-> i5]

\* the whole of s is a float text, digit groups possibly empty
FloatShape(s) ==
    LET p == FloatParts(s)
    IN  p.i5 = Len(s) + 1 /\ (p.i2 > p.i1 \/ p.i3 > p.f1)

\* ... and no digit group it has is empty
FloatStrict(s) ==
    LET p == FloatParts(s)
    IN  /\ FloatShape(s)
        /\ p.i2 > p.i1
        /\ (p.dot => p.i3 > p.f1)
        /\ (p.ex => p.i5 > p.x1)

FloatValue(s) ==
    LET p    == FloatParts(s)
        fl   == p.i3 - p.f1
        mant == DigitsValue(s, p.i1, p.i2) * Pow10(fl) + DigitsValue(s, p.f1, p.i3)
        xabs == DigitsValue(s, p.x1, p.i5)
        x    == IF p.xneg THEN 0 - xabs ELSE xabs
    IN  Normalize(IF p.neg THEN 0 - mant ELSE mant, x - fl)

\* the Results try_atof64_slice may give for s (res.error.code == Success or not)
Atof(s) ==
    IF FloatStrict(s) THEN {Ok(JNumber(FloatValue(s)))}
    ELSE IF FloatShape(s) THEN {Ok(JNumber(FloatValue(s))), Fail}
    ELSE {Fail}

(***************************************************************************)
(* fn parse                                                                *)
(***************************************************************************)
\* self.value()
Parse_Call ==
    /\ At("parse", "start")
    /\ Step(Call(Frame("parse", "ret"), Frame("value", "start")), NoRet, index)
    /\ UNCHANGED buffers

\* (mutant) parse() without the check of the root's variant
ParseResult_AnyRoot(r) ==
    IF r.kind = "Ok" THEN r ELSE Err(InvalidJSON)

\* the match on the Result of value(): an Object or Array root is returned,
\* everything else (a scalar root or any error) becomes InvalidJSON
ParseResult(r) ==
    IF r.kind = "Ok" /\ r.val.tag \in {"Object", "Array"} THEN r
    ELSE Err(InvalidJSON)

\* (mutant) parse() that accepts a root only at the end of the input
Parse_Return_Exhausted ==
    /\ At("parse", "ret")
    /\ Return(IF HasByte(index) THEN Err(InvalidJSON) ELSE ParseResult(ret), index)

Parse_Return ==
    /\ At("parse", "ret")
    /\ Return(ParseResult(ret), index)

(***************************************************************************)
(* fn value                                                                *)
(***************************************************************************)
\* the callee the lookahead byte selects; "fail" for the `_` arm
ValueArm(next) ==
    IF IsDigit(next) \/ next = ch.minus THEN "number"
    ELSE IF next = ch.t THEN "true"
    ELSE IF next = ch.f THEN "false"
    ELSE IF next = ch.n THEN "null"
    ELSE IF next = ch.quote THEN "text"
    ELSE IF next = ch.lbracket THEN "array"
    ELSE IF next = ch.lbrace THEN "object"
    ELSE "fail"

LiteralStr(arm) ==
    IF arm = "true" THEN StrTrue ELSE IF arm = "false" THEN StrFalse ELSE StrNull

LiteralValue(arm) ==
    IF arm = "true" THEN JBool(TRUE) ELSE IF arm = "false" THEN JBool(FALSE) ELSE JNull

\* skip_control_chars(); current_byte()?; the lookahead match up to the call
Value_Dispatch ==
    /\ At("value", "start")
    /\ LET i == SkipControlChars(index) IN
       IF ~HasByte(i) THEN Return(Err(EndOfStream), i)
       ELSE LET arm == ValueArm(ByteAt(i)) IN
            /\ UNCHANGED buffers
            /\ IF arm = "fail"
                 THEN Step(Goto(Frame("value", "res")), Fail, i)
               ELSE IF arm \in {"true", "false", "null"}
                 THEN Step(Call([Frame("value", "lit") EXCEPT !.arg = arm],
                                [Frame("eat_str", "start") EXCEPT !.arg = LiteralStr(arm)]),
                           NoRet, i)
               ELSE IF arm = "number"
                 THEN Step(Call(Frame("value", "res"),
                                [Frame("number", "scan") EXCEPT !.start = i]),
                           NoRet, i)
               ELSE Step(Call(Frame("value", "res"), Frame(arm, "start")), NoRet, i)

\* self.eat_str(..)?; Ok(json::bool(..)) / Ok(json::null())
Value_Literal ==
    /\ At("value", "lit")
    /\ IF ret.kind = "Ok"
         THEN Step(Goto(Frame("value", "res")), Ok(LiteralValue(Top.arg)), index)
              /\ UNCHANGED buffers
         ELSE Return(ret, index)

\* (mutant) the comma is skipped before the whitespace
AfterValue_CommaFirst(i) == SkipControlChars(SkipComma(i))

\* "commas may trail": skip_control_chars(); skip_comma()
AfterValue(i) == SkipComma(SkipControlChars(i))

\* the end of value(): the trailing whitespace and comma are skipped, res returned
Value_Finish ==
    /\ At("value", "res")
    /\ Return(ret, AfterValue(index))

(***************************************************************************)
(* fn eat_str                                                              *)
(***************************************************************************)
\* (mutant) eat_str() that accepts the first byte before it compares the rest
EatStr_AcceptsFirst ==
    /\ At("eat_str", "start")
    /\ LET m == Top.arg IN
       IF index + Len(m) > Len(bytes) THEN Unwind
       ELSE IF m = Slice(index, index + Len(m))
         THEN Return(Ok(PStr(m)), index + Len(m))
       ELSE Return(Fail, index + 1)

\* the slice self.bytes[index..index + len] panics when it ends past the input
EatStr ==
    /\ At("eat_str", "start")
    /\ LET m == Top.arg IN
       IF index + Len(m) > Len(bytes) THEN Unwind
       ELSE IF m = Slice(index, index + Len(m))
         THEN Return(Ok(PStr(m)), index + Len(m))
       ELSE Return(Fail, index)

(***************************************************************************)
(* fn number                                                               *)
(***************************************************************************)
IsNumberByte(c) == IsDigit(c) \/ c \in {ch.minus, ch.dot, ch.e, ch.upperE}

\* one iteration of "eat through valid bytes"
Number_Scan ==
    /\ At("number", "scan")
    /\ HasByte(index) /\ IsNumberByte(ByteAt(index))
    /\ Step(stack, ret, index + 1)
    /\ UNCHANGED buffers

\* the loop is left; checked parse of bytes[idx_start..index]
Number_Convert ==
    /\ At("number", "scan")
    /\ ~(HasByte(index) /\ IsNumberByte(ByteAt(index)))
    /\ \E r \in Atof(Slice(Top.start, index)) : Return(r, index)

(***************************************************************************)
(* fn text, fn string                                                      *)
(***************************************************************************)
\* self.string()
Text_Call ==
    /\ At("text", "start")
    /\ Step(Call(Frame("text", "ret"), Frame("string", "start")), NoRet, index)
    /\ UNCHANGED buffers

\* ...?; Ok(json::text(s))
Text_Return ==
    /\ At("text", "ret")
    /\ Return(IF ret.kind = "Ok" THEN Ok(JText(ret.val.str)) ELSE ret, index)

\* self.eat(b'"')?; self.eat_until(b'"')
String_Open ==
    /\ At("string", "start")
    /\ LET e == Eat(index, ch.quote) IN
       IF e.res.kind = "Ok"
         THEN /\ Step(Call(Frame("string", "body"),
                           [Frame("eat_until", "loop") EXCEPT
                               !.arg = <<ch.quote>>, !.start = e.index]),
                      NoRet, e.index)
              /\ UNCHANGED buffers
         ELSE Return(e.res, e.index)

\* ...?; self.eat(b'"')?; Ok(s)
String_Close ==
    /\ At("string", "body")
    /\ IF ret.kind # "Ok" THEN Return(ret, index)
       ELSE LET e == Eat(index, ch.quote) IN
            Return(IF e.res.kind = "Ok" THEN ret ELSE e.res, e.index)

(***************************************************************************)
(* fn eat_until                                                            *)
(***************************************************************************)
\* one iteration of the loop, and what follows the loop when it is left.
\* On a backslash the call ends as eat_buffered_until(initial_str, token):
\* its frame takes the place of this one.
EatUntil_Step ==
    /\ At("eat_until", "loop")
    /\ LET token == Top.arg[1] IN
       IF ~HasByte(index) THEN Return(Err(EndOfStream), index)
       ELSE IF ByteAt(index) = token
         THEN Return(Ok(PStr(Slice(Top.start, index))), index)
       ELSE /\ UNCHANGED buffers
            /\ IF ByteAt(index) = ch.bslash
                 THEN Step(Goto([Frame("eat_buffered_until", "loop") EXCEPT
                                    !.arg = <<token>>,
                                    !.acc = PStr(Slice(Top.start, index))]),
                           ret, index)
                 ELSE Step(stack, ret, index + 1)

(***************************************************************************)
(* fn eat_buffered_until                                                   *)
(***************************************************************************)
IsEscape(c) ==
    c \in {ch.quote, ch.bslash, ch.slash, ch.b, ch.f, ch.n, ch.r, ch.t}

\* (mutant) the escape letter is pushed as it is written
Unescaped_Letter(c) == c

\* the byte pushed for the escape '\' c
Unescaped(c) ==
    IF c = ch.b THEN ch.bs
    ELSE IF c = ch.f THEN ch.ff
    ELSE IF c = ch.n THEN ch.lf
    ELSE IF c = ch.r THEN ch.cr
    ELSE IF c = ch.t THEN ch.tab
    ELSE c

\* one iteration of the loop, and what follows the loop when it is left
EatBuffered_Step ==
    /\ At("eat_buffered_until", "loop")
    /\ LET token  == Top.arg[1]
           buffer == Top.acc.str
           push(c) == Goto([Top EXCEPT !.acc = PStr(Append(buffer, c))])
       IN
       IF ~HasByte(index) THEN Return(Err(EndOfStream), index)
       ELSE IF ByteAt(index) = token
         THEN /\ Step(Rest, Ok(PStr(buffer)), index)
              /\ buffers' = Append(buffers, buffer)
       ELSE IF ByteAt(index) = ch.bslash
         THEN IF ~HasByte(index + 1) THEN Return(Err(EndOfStream), index + 1)
              ELSE IF IsEscape(ByteAt(index + 1))
                THEN /\ Step(push(Unescaped(ByteAt(index + 1))), ret, index + 2)
                     /\ UNCHANGED buffers
              ELSE Return(Fail, index + 1)
       ELSE /\ Step(push(ByteAt(index)), ret, index + 1)
            /\ UNCHANGED buffers

(***************************************************************************)
(* fn object, fn object_fields, fn object_field                            *)
(***************************************************************************)
\* skip_control_chars(); eat(b'{')?; skip_control_chars(); self.object_fields()
Object_Open ==
    /\ At("object", "start")
    /\ LET e == Eat(SkipControlChars(index), ch.lbrace) IN
       IF e.res.kind = "Ok"
         THEN /\ Step(Call(Frame("object", "fields"), Frame("object_fields", "start")),
                      NoRet, SkipControlChars(e.index))
              /\ UNCHANGED buffers
         ELSE Return(e.res, e.index)

\* ...?; skip_control_chars(); eat(b'}')?; Ok(json::object(fields))
Object_Close ==
    /\ At("object", "fields")
    /\ IF ret.kind # "Ok" THEN Return(ret, index)
       ELSE LET e == Eat(SkipControlChars(index), ch.rbrace) IN
            Return(IF e.res.kind = "Ok" THEN Ok(JObject(ret.val.fields)) ELSE e.res,
                   e.index)

\* current_byte()?; the empty object, or the first object_field()
ObjectFields_Start ==
    /\ At("object_fields", "start")
    /\ IF ~HasByte(index) THEN Return(Err(EndOfStream), index)
       ELSE IF ByteAt(index) = ch.rbrace THEN Return(Ok(PMap(<<>>)), index)
       ELSE /\ Step(Call([Frame("object_fields", "loop") EXCEPT !.acc = PMap(<<>>)],
                         Frame("object_field", "start")),
                    NoRet, index)
            /\ UNCHANGED buffers

\* hashmap.insert(id, value): the last write for a key wins
Insert(hashmap, id, value) == (id :> value) @@ hashmap

\* ...?; insert; the lookahead; break or the next object_field()
ObjectFields_Loop ==
    /\ At("object_fields", "loop")
    /\ IF ret.kind # "Ok" THEN Return(ret, index)
       ELSE LET hashmap == Insert(Top.acc.fields, ret.val.str, ret.val.items[1])
                i       == SkipControlChars(index)
            IN
            IF ~HasByte(i) THEN Return(Err(EndOfStream), i)
            ELSE IF ByteAt(i) = ch.rbrace THEN Return(Ok(PMap(hashmap)), i)
            ELSE /\ Step(Call([Top EXCEPT !.acc = PMap(hashmap)],
                              Frame("object_field", "start")),
                         NoRet, i)
                 /\ UNCHANGED buffers

\* skip_control_chars(); self.string()
ObjectField_Id ==
    /\ At("object_field", "start")
    /\ Step(Call(Frame("object_field", "id"), Frame("string", "start")),
            NoRet, SkipControlChars(index))
    /\ UNCHANGED buffers

\* ...?; skip_control_chars(); eat(b':')?; self.value()
ObjectField_Colon ==
    /\ At("object_field", "id")
    /\ IF ret.kind # "Ok" THEN Return(ret, index)
       ELSE LET e == Eat(SkipControlChars(index), ch.colon) IN
            IF e.res.kind = "Ok"
              THEN /\ Step(Call([Frame("object_field", "val") EXCEPT !.acc = ret.val],
                                Frame("value", "start")),
                           NoRet, e.index)
                   /\ UNCHANGED buffers
              ELSE Return(e.res, e.index)

\* ...?; Ok((id, val))
ObjectField_Return ==
    /\ At("object_field", "val")
    /\ Return(IF ret.kind = "Ok" THEN Ok(PPair(Top.acc.str, ret.val)) ELSE ret, index)

(***************************************************************************)
(* fn array, fn array_values                                               *)
(***************************************************************************)
\* skip_control_chars(); eat(b'[')?; skip_control_chars(); self.array_values()
Array_Open ==
    /\ At("array", "start")
    /\ LET e == Eat(SkipControlChars(index), ch.lbracket) IN
       IF e.res.kind = "Ok"
         THEN /\ Step(Call(Frame("array", "values"), Frame("array_values", "start")),
                      NoRet, SkipControlChars(e.index))
              /\ UNCHANGED buffers
         ELSE Return(e.res, e.index)

\* ...?; skip_control_chars(); eat(b']')?; Ok(json::array(values))
Array_Close ==
    /\ At("array", "values")
    /\ IF ret.kind # "Ok" THEN Return(ret, index)
       ELSE LET e == Eat(SkipControlChars(index), ch.rbracket) IN
            Return(IF e.res.kind = "Ok" THEN Ok(JArray(ret.val.items)) ELSE e.res,
                   e.index)

\* current_byte()?; the empty array, or the first value()
ArrayValues_Start ==
    /\ At("array_values", "start")
    /\ IF ~HasByte(index) THEN Return(Err(EndOfStream), index)
       ELSE IF ByteAt(index) = ch.rbracket THEN Return(Ok(PVec(<<>>)), index)
       ELSE /\ Step(Call([Frame("array_values", "loop") EXCEPT !.acc = PVec(<<>>)],
                         Frame("value", "start")),
                    NoRet, index)
            /\ UNCHANGED buffers

\* ...?; vals.push(value); the lookahead; break or the next value()
ArrayValues_Loop ==
    /\ At("array_values", "loop")
    /\ IF ret.kind # "Ok" THEN Return(ret, index)
       ELSE LET vals == Append(Top.acc.items, ret.val)
                i    == SkipControlChars(index)
            IN
            IF ~HasByte(i) THEN Return(Err(EndOfStream), i)
            ELSE IF ByteAt(i) = ch.rbracket THEN Return(Ok(PVec(vals)), i)
            ELSE /\ Step(Call([Top EXCEPT !.acc = PVec(vals)],
                              Frame("value", "start")),
                         NoRet, i)
                 /\ UNCHANGED buffers

(***************************************************************************)
(* The parse of one input, from json::from_str to the Result it returns.   *)
(***************************************************************************)
Next ==
    \/ Parse_Call \/ Parse_Return
    \/ Value_Dispatch \/ Value_Literal \/ Value_Finish
    \/ EatStr
    \/ Number_Scan \/ Number_Convert
    \/ Text_Call \/ Text_Return
    \/ String_Open \/ String_Close
    \/ EatUntil_Step \/ EatBuffered_Step
    \/ Object_Open \/ Object_Close
    \/ ObjectFields_Start \/ ObjectFields_Loop
    \/ ObjectField_Id \/ ObjectField_Colon \/ ObjectField_Return
    \/ Array_Open \/ Array_Close
    \/ ArrayValues_Start \/ ArrayValues_Loop

\* ParseContext::new(text) with the call of fn entered
Start(text, fn, from) ==
    /\ bytes = text
    /\ index = 0
    /\ buffers = <<>>
    /\ stack = <<fn>>
    /\ ret = NoRet
    /\ steps = 0
    /\ failedAt = -1
    /\ rootValue = NoRet
    /\ ref = from

(***************************************************************************)
(* Inputs of Spec: every text made of at most MaxTokens pieces, alone or   *)
(* as the value of the first field of an object.                           *)
(***************************************************************************)
MaxTokens == 3

Tokens ==
    { <<ch.lbracket>>, <<ch.rbracket>>, <<ch.lbrace>>, <<ch.rbrace>>,
      <<ch.comma>>, <<ch.colon>>, <<ch.space>>, <<ch.x>>,
      <<ch.quote, ch.a, ch.quote>>,
      <<ch.quote, ch.bslash, ch.t, ch.quote>>,
      <<ch.zero + 1>>, <<ch.minus>>,
      StrTrue, StrNull,
      <<ch.t, ch.r, ch.u>>, <<ch.f, ch.a, ch.l, ch.s>> }

RECURSIVE TokenTexts(_)
TokenTexts(k) ==
    IF k = 0 THEN {<<>>}
    ELSE LET shorter == TokenTexts(k - 1)
         IN  shorter \cup {t \o tok : t \in shorter, tok \in Tokens}

FieldPrefix == <<ch.lbrace, ch.quote, ch.a, ch.quote, ch.colon>>

Inputs == {pre \o t : pre \in {<<>>, FieldPrefix}, t \in TokenTexts(MaxTokens)}

Init == \E text \in Inputs : Start(text, Frame("parse", "start"), PUnit)

Spec == Init /\ [][Next]_vars

(***************************************************************************)
(* Claims about the entry point and the errors, checked under Spec.        *)
(***************************************************************************)
\* the call entered by Start has come back (or unwound)
Done == ~Running

IsScalar(v) == v.tag \in {"Number", "Text", "Bool", "Null"}

\* the first significant byte of the input opens an object or an array
RootIsCollection ==
    LET i == SkipControlChars(0)
    IN  HasByte(i) /\ ByteAt(i) \in {ch.lbrace, ch.lbracket}

\* C1: parse returns Ok only with an Object or Array root; when the root
\* value parsed from position 0 is a scalar, parse returns the InvalidJSON
\* error and never Ok.
C1_RootIsObjectOrArray ==
    Done =>
        /\ (ret.kind = "Ok" => ret.val.tag \in {"Object", "Array"})
        /\ (rootValue.kind = "Ok" /\ IsScalar(rootValue.val)
                => ret = Err(InvalidJSON))

\* a scalar root was parsed and parse has returned
C1_Witness ==
    /\ Done
    /\ rootValue.kind = "Ok" /\ rootValue.val.tag = "Number"
    /\ ret = Err(InvalidJSON)

\* C2: when the root begins as an object or array and a nested sub-parser
\* fails, parse returns that sub-parser's own error unchanged and no partial
\* Object/Array; InvalidJSON is returned only when the root was a scalar or
\* nothing matched at position 0.
C2_SubParserErrorPropagated ==
    (Done /\ RootIsCollection /\ rootValue.kind = "Err") =>
        /\ ret.kind = "Err"
        /\ ret.err = rootValue.err
        /\ ret.err.kind # "InvalidJSON"

\* C3: a sub-parser that needs more bytes at the end of the input returns
\* EndOfStream: no panic, and no byte-mismatch error raised with the cursor
\* at the end of the input.
C3_EndOfInputIsEndOfStream ==
    /\ ret.kind # "Panic"
    /\ (ret = Fail => failedAt < Len(bytes))

\* the 0-based line and column of the byte at index i
LineOf(i) == Cardinality({k \in 1..i : bytes[k] = ch.lf})
ColOf(i)  ==
    LET nl == {k \in 1..i : bytes[k] = ch.lf}
    IN  IF nl = {} THEN i ELSE i - (CHOOSE k \in nl : \A j \in nl : j <= k)

\* C8: an UnexpectedCharacter error carries the position at which the
\* failure was detected and the byte found there.
C8_ErrorCarriesPosition ==
    (ret.kind = "Err" /\ ret.err.kind = "UnexpectedCharacter") =>
        /\ HasByte(failedAt)
        /\ ret.err.token = ByteAt(failedAt)
        /\ ret.err.line = LineOf(failedAt)
        /\ ret.err.col = ColOf(failedAt)

\* the bytes at the cursor are exactly the literal m
MatchesAt(m, i) == i + Len(m) <= Len(bytes) /\ Slice(i, i + Len(m)) = m

\* C9: matching true/false/null is byte-exact: on a match the cursor
\* advances by the literal's length; otherwise the match does not succeed
\* and the cursor stays where it was, and value() passes the failure on
\* without skipping whitespace or a comma.
C9_LiteralMatchConsumesNothingOnFailure ==
    [][ /\ At("eat_str", "start") =>
             IF MatchesAt(Top.arg, index)
               THEN ret'.kind = "Ok" /\ index' = index + Len(Top.arg)
               ELSE ret'.kind # "Ok" /\ index' = index
        /\ (At("value", "lit") /\ ret.kind # "Ok") =>
             ret' = ret /\ index' = index /\ stack' = Rest
      ]_vars

\* value() has passed on a failed literal match with the cursor on the literal
C9_Witness ==
    /\ ret = Fail
    /\ failedAt = index
    /\ HasByte(index) /\ ByteAt(index) \in {ch.t, ch.f, ch.n}
    /\ Running /\ Top.fn # "value"
    /\ index + 1 < Len(bytes)

\* the steps a parse of n bytes may take
StepBound(n) == 8 * (n + 1)

\* the actions that are one iteration of a loop of the parser
InLoop ==
    \/ At("object_fields", "loop") \/ At("array_values", "loop")
    \/ At("eat_until", "loop") \/ At("eat_buffered_until", "loop")
    \/ At("number", "scan")

\* the cursor never moves back, a loop iteration advances it or leaves the loop
Progress ==
    [][ /\ index' >= index
        /\ InLoop => (index' > index \/ stack' # stack)
        /\ steps' <= StepBound(Len(bytes))
      ]_vars

\* C10: every parse call terminates with Ok or an error within a number of
\* steps bounded by the input length; the cursor never decreases and every
\* loop iteration advances it or returns.
C10_TerminatesWithResult ==
    [][ /\ index' >= index
        /\ InLoop => (index' > index \/ stack' # stack)
        /\ steps' <= StepBound(Len(bytes))
        /\ ~Running' => ret'.kind \in {"Ok", "Err"}
      ]_vars

(***************************************************************************)
(* number() on numeric literals (tests::parse_number calls it directly).   *)
(* A literal is written from its parts: sign, integer digits, fraction     *)
(* digits, exponent letter, exponent sign and exponent digits, each group  *)
(* of at most MaxDigits digits; one byte that ends a number may follow it. *)
(* ref is the pair (literal, the Number its parts denote).                 *)
(***************************************************************************)
MaxDigits == 2

DigitBytes == {ch.zero, ch.zero + 7}

RECURSIVE DigitSeqs(_)
DigitSeqs(k) ==
    IF k = 0 THEN {<<>>}
    ELSE LET shorter == DigitSeqs(k - 1)
         IN  shorter \cup {Append(d, c) : d \in shorter, c \in DigitBytes}

DigitGroups == DigitSeqs(MaxDigits) \ {<<>>}

\* the number a sequence of digits denotes
RECURSIVE SeqValue(_)
SeqValue(d) ==
    IF d = <<>> THEN 0
    ELSE SeqValue(SubSeq(d, 1, Len(d) - 1)) * 10 + (d[Len(d)] - ch.zero)

\* exponents: none, or letter, sign and digits
Exponents ==
    {[text |-> <<>>, value |-> 0]} \cup
    {[text |-> <<letter>> \o sign \o d,
      value |-> IF sign = <<ch.minus>> THEN 0 - SeqValue(d) ELSE SeqValue(d)] :
        letter \in {ch.e, ch.upperE},
        sign \in {<<>>, <<ch.minus>>, <<ch.plus>>},
        d \in DigitGroups}

\* fractions: none, or '.' and digits
Fractions ==
    {[text |-> <<>>, digits |-> <<>>]} \cup
    {[text |-> <<ch.dot>> \o d, digits |-> d] : d \in DigitGroups}

NumberLiterals ==
    {[text  |-> (IF neg THEN <<ch.minus>> ELSE <<>>) \o int \o fr.text \o ex.text,
      value |-> LET mant == SeqValue(int) * Pow10(Len(fr.digits)) + SeqValue(fr.digits)
                IN  Normalize(IF neg THEN 0 - mant ELSE mant,
                              ex.value - Len(fr.digits))] :
        neg \in BOOLEAN, int \in DigitGroups, fr \in Fractions, ex \in Exponents}

NumberEnds == {<<>>, <<ch.comma>>, <<ch.rbracket>>, <<ch.space>>}

InitNumber ==
    \E lit \in NumberLiterals, end \in NumberEnds :
        Start(lit.text \o end, Frame("number", "scan"),
              PPair(lit.text, JNumber(lit.value)))

NextNumber == Number_Scan \/ Number_Convert

SpecNumber == InitNumber /\ [][NextNumber]_vars

HasPlus == \E k \in 1..Len(bytes) : bytes[k] = ch.plus

\* C6: number() consumes exactly the whole literal, leaves the cursor right
\* after its last byte and succeeds with the Number the literal denotes.
C6_NumberConsumesWholeLiteral ==
    Done => ret = Ok(ref.items[1]) /\ index = Len(ref.str)

\* the same for the literals that hold no '+'
NumberWithoutPlus ==
    (Done /\ ~HasPlus) => ret = Ok(ref.items[1]) /\ index = Len(ref.str)

(***************************************************************************)
(* Escaped strings.  A string literal is written from at most MaxItems     *)
(* items, each a raw byte or a two-byte escape; the input is an object     *)
(* with one field whose key and whose Text value are such literals, so two *)
(* strings are parsed one after the other by the same ParseContext.  ref   *)
(* is the object of the bytes the items stand for.                         *)
(***************************************************************************)
MaxItems == 3

\* what is written, and the byte it stands for
EscapeItems ==
    { [src |-> <<ch.bslash, ch.n>>,      out |-> <<ch.lf>>],
      [src |-> <<ch.bslash, ch.t>>,      out |-> <<ch.tab>>],
      [src |-> <<ch.bslash, ch.r>>,      out |-> <<ch.cr>>],
      [src |-> <<ch.bslash, ch.quote>>,  out |-> <<ch.quote>>],
      [src |-> <<ch.bslash, ch.bslash>>, out |-> <<ch.bslash>>],
      [src |-> <<ch.bslash, ch.slash>>,  out |-> <<ch.slash>>],
      [src |-> <<ch.bslash, ch.b>>,      out |-> <<ch.bs>>],
      [src |-> <<ch.bslash, ch.f>>,      out |-> <<ch.ff>>] }

RawItems == { [src |-> <<ch.a>>, out |-> <<ch.a>>] }

StringItems == EscapeItems \cup RawItems

\* the strings of exactly k items
RECURSIVE ItemStrings(_)
ItemStrings(k) ==
    IF k = 0 THEN {[src |-> <<>>, out |-> <<>>]}
    ELSE {[src |-> st.src \o it.src, out |-> st.out \o it.out] :
            st \in ItemStrings(k - 1), it \in StringItems}

Quoted(src) == <<ch.quote>> \o src \o <<ch.quote>>

InitString ==
    \E k1 \in 0..MaxItems :
    \E k2 \in 0..(MaxItems - k1) :
    \E key \in ItemStrings(k1), val \in ItemStrings(k2) :
        Start(<<ch.lbrace>> \o Quoted(key.src) \o <<ch.colon>> \o Quoted(val.src)
                  \o <<ch.rbrace>>,
              Frame("parse", "start"),
              JObject(key.out :> JText(val.out)))

NextString ==
    \/ Parse_Call \/ Parse_Return
    \/ Value_Dispatch \/ Value_Finish
    \/ Text_Call \/ Text_Return
    \/ String_Open \/ String_Close
    \/ EatUntil_Step \/ EatBuffered_Step
    \/ Object_Open \/ Object_Close
    \/ ObjectFields_Start \/ ObjectFields_Loop
    \/ ObjectField_Id \/ ObjectField_Colon \/ ObjectField_Return

SpecString == InitString /\ [][NextString]_vars

\* C5: a key or Text value written with the escapes \n \t \r \" \\ \/ \b \f
\* is parsed to its bytes with every escape replaced by the byte it stands
\* for: the bytes before the first backslash are kept, an escaped quote does
\* not end the string, and nothing of an earlier escaped string is carried
\* over.
C5_EscapesAreUnescaped ==
    Done => ret = Ok(ref)

\* two escaped strings were parsed in one parse: a key with a raw prefix
\* before its first escape, and a value holding an escaped quote
C5_Witness ==
    /\ Done /\ ret = Ok(ref)
    /\ Len(buffers) = 2
    /\ Len(buffers[1]) >= 2 /\ buffers[1][1] = ch.a
    /\ buffers[1][2] \in {ch.lf, ch.tab, ch.cr, ch.bs, ch.ff}
    /\ \E k \in 1..Len(buffers[2]) : buffers[2][k] = ch.quote

(***************************************************************************)
(* Valid documents.  A document is written from a tree of at most MaxNodes *)
(* nodes (leaves, arrays, objects with keys "a" and "b") in one of the     *)
(* Styles, which fix the whitespace between the tokens and whether the     *)
(* root collection and the nested collections carry a trailing comma after *)
(* their last element.  ref is the tree the text was written from: the     *)
(* texts of one tree differ in whitespace and trailing commas only.        *)
(***************************************************************************)
MaxNodes == 3

Leaves ==
    { [text |-> StrFalse, tree |-> JBool(FALSE)],
      [text |-> StrNull,  tree |-> JNull],
      [text |-> <<ch.quote, ch.a, ch.b, ch.quote>>, tree |-> JText(<<ch.a, ch.b>>)],
      [text |-> <<ch.minus, ch.zero + 2, ch.dot, ch.zero + 5>>,
       tree |-> JNumber(<<-25, -1>>)],
      [text |-> <<ch.zero + 1, ch.e, ch.plus, ch.zero + 2>>,
       tree |-> JNumber(<<1, 2>>)] }

Keys == {<<ch.a>>, <<ch.b>>}

\* pad: around the brackets; sep: between elements; colon: between key and
\* value; trailRoot, trailNested: after the last element
Styles ==
    { [pad |-> <<>>, sep |-> <<ch.comma>>, colon |-> <<ch.colon>>,
       trailRoot |-> <<>>, trailNested |-> <<>>],
      [pad |-> <<ch.space>>, sep |-> <<ch.tab, ch.comma, ch.lf>>,
       colon |-> <<ch.cr, ch.colon, ch.space>>,
       trailRoot |-> <<>>, trailNested |-> <<>>],
      [pad |-> <<>>, sep |-> <<ch.comma>>, colon |-> <<ch.colon>>,
       trailRoot |-> <<ch.comma>>, trailNested |-> <<>>],
      [pad |-> <<>>, sep |-> <<ch.comma>>, colon |-> <<ch.colon>>,
       trailRoot |-> <<>>, trailNested |-> <<ch.comma>>],
      [pad |-> <<ch.lf>>, sep |-> <<ch.comma, ch.space>>,
       colon |-> <<ch.colon, ch.space>>,
       trailRoot |-> <<ch.space, ch.comma, ch.tab>>,
       trailNested |-> <<ch.cr, ch.comma>>] }

RECURSIVE Join(_, _)
Join(texts, sep) ==
    IF Len(texts) = 0 THEN <<>>
    ELSE IF Len(texts) = 1 THEN texts[1]
    ELSE texts[1] \o sep \o Join(Tail(texts), sep)

Bracketed(open, body, close, st, nested) ==
    LET trail == IF body = <<>> THEN <<>>
                 ELSE IF nested THEN st.trailNested ELSE st.trailRoot
    IN  <<open>> \o st.pad \o body \o trail \o st.pad \o <<close>>

\* the mapping a sequence of fields denotes: the last field of a key counts
FieldsTree(keys, es) ==
    [k \in {keys[i] : i \in 1..Len(keys)} |->
        es[CHOOSE i \in 1..Len(keys) :
              keys[i] = k /\ \A j \in 1..Len(keys) : keys[j] = k => j <= i].tree]

RECURSIVE ValuesOfSize(_, _)
RECURSIVE ElementSeqs(_, _)

\* the arrays and objects of exactly n nodes
Collections(n, st, nested) ==
    LET seqs == ElementSeqs(n - 1, st)
    IN  {[text |-> Bracketed(ch.lbracket,
                             Join([i \in 1..Len(es) |-> es[i].text], st.sep),
                             ch.rbracket, st, nested),
          tree |-> JArray([i \in 1..Len(es) |-> es[i].tree])] : es \in seqs}
        \cup
        UNION {{[text |-> Bracketed(ch.lbrace,
                                    Join([i \in 1..Len(es) |->
                                            Quoted(keys[i]) \o st.colon \o es[i].text],
                                         st.sep),
                                    ch.rbrace, st, nested),
                 tree |-> JObject(FieldsTree(keys, es))] :
                    keys \in [1..Len(es) -> Keys]} : es \in seqs}

\* the values of exactly n nodes, as elements of a collection
ValuesOfSize(n, st) ==
    IF n = 1 THEN Leaves \cup Collections(1, st, TRUE)
    ELSE Collections(n, st, TRUE)

\* the sequences of values with m nodes in all
ElementSeqs(m, st) ==
    IF m = 0 THEN {<<>>}
    ELSE UNION {{<<first>> \o rest : first \in ValuesOfSize(k, st),
                                      rest \in ElementSeqs(m - k, st)} :
                   k \in 1..m}

InitValid ==
    \E st \in Styles, n \in 1..MaxNodes :
    \E doc \in Collections(n, st, FALSE) :
        Start(st.pad \o doc.text \o st.pad, Frame("parse", "start"), doc.tree)

\* text and string escapes never run here: the documents hold no escape
NextValid ==
    \/ Parse_Call \/ Parse_Return
    \/ Value_Dispatch \/ Value_Literal \/ Value_Finish
    \/ EatStr
    \/ Number_Scan \/ Number_Convert
    \/ Text_Call \/ Text_Return
    \/ String_Open \/ String_Close
    \/ EatUntil_Step
    \/ Object_Open \/ Object_Close
    \/ ObjectFields_Start \/ ObjectFields_Loop
    \/ ObjectField_Id \/ ObjectField_Colon \/ ObjectField_Return
    \/ Array_Open \/ Array_Close
    \/ ArrayValues_Start \/ ArrayValues_Loop

SpecValid == InitValid /\ [][NextValid]_vars

\* C4: a valid object or array text without escapes parses to Ok with the
\* tree it denotes.
C4_ValidTextParsesToItsTree ==
    Done => ret = Ok(ref)

\* a ',' of the input is followed, after whitespace, by a closing bracket
HasTrailingComma ==
    \E k \in 1..Len(bytes) :
        /\ bytes[k] = ch.comma
        /\ LET i == SkipControlChars(k)
           IN  HasByte(i) /\ ByteAt(i) \in {ch.rbrace, ch.rbracket}

\* C7: a text with a trailing comma after the last element of a collection
\* is accepted and parses to the same value as the text without the comma.
\* The value of the text without the comma is ref: every text without '+'
\* parses to Ok(ref), with or without trailing commas.  (A text with '+'
\* in a number has no value to compare with: it is rejected, see C4, C6.)
C7_TrailingCommaAccepted ==
    (Done /\ ~HasPlus) => ret = Ok(ref)

\* a text with trailing commas in the root and in a nested collection, and
\* whitespace around them, was parsed
C7_Witness ==
    /\ Done /\ ret = Ok(ref)
    /\ HasTrailingComma
    /\ ref.tag = "Object"
    /\ \E k \in DOMAIN ref.fields :
          ref.fields[k].tag = "Array" /\ Len(ref.fields[k].items) = 1
    /\ bytes[Len(bytes)] = ch.lf
    /\ \E k \in 1..Len(bytes) : bytes[k] = ch.cr

(***************************************************************************)
(* Commas between elements.  The documents of SpecCommas are written from  *)
(* the same trees in CommaStyles: with a ',' between the elements, or with *)
(* whitespace only.  CommaEdits adds to each text the texts with one more  *)
(* ',' put right after an opening bracket (a comma before the first        *)
(* element) or right after a ',' (two commas in a row).                    *)
(***************************************************************************)
CommaStyles ==
    { [pad |-> <<>>, sep |-> <<ch.comma>>, colon |-> <<ch.colon>>,
       trailRoot |-> <<>>, trailNested |-> <<>>],
      [pad |-> <<>>, sep |-> <<ch.space>>, colon |-> <<ch.colon>>,
       trailRoot |-> <<>>, trailNested |-> <<>>],
      [pad |-> <<ch.space>>, sep |-> <<ch.lf, ch.tab>>,
       colon |-> <<ch.space, ch.colon>>,
       trailRoot |-> <<ch.comma>>, trailNested |-> <<>>] }

InsertComma(text, k) ==
    SubSeq(text, 1, k) \o <<ch.comma>> \o SubSeq(text, k + 1, Len(text))

CommaEdits(text) ==
    {text} \cup
    {InsertComma(text, k) :
        k \in {j \in 1..Len(text) :
                  text[j] \in {ch.lbracket, ch.lbrace, ch.comma}}}

InitCommas ==
    \E st \in CommaStyles, n \in 1..MaxNodes :
    \E doc \in Collections(n, st, FALSE) :
    \E text \in CommaEdits(doc.text) :
        Start(text, Frame("parse", "start"), doc.tree)

SpecCommas == InitCommas /\ [][NextValid]_vars

\* a ',' is the first significant byte after an opening bracket
LeadingComma ==
    \E k \in 1..Len(bytes) :
        /\ bytes[k] \in {ch.lbracket, ch.lbrace}
        /\ LET i == SkipControlChars(k)
           IN  HasByte(i) /\ ByteAt(i) = ch.comma

\* a ',' is the first significant byte after a ','
DoubleComma ==
    \E k \in 1..Len(bytes) :
        /\ bytes[k] = ch.comma
        /\ LET i == SkipControlChars(k)
           IN  HasByte(i) /\ ByteAt(i) = ch.comma

NoComma == \A k \in 1..Len(bytes) : bytes[k] # ch.comma

\* C11: a comma after a value is optional and at most one is consumed.  A
\* text whose elements or fields are separated by whitespace only parses to
\* Ok with the tree of the comma-separated text; a text with a comma before
\* the first element of a collection or with two commas in a row fails, and
\* it fails at that comma.  (As in C7, a text with '+' in a number is
\* rejected whatever its commas are, at the '+'.)
C11_CommaOptionalNeverRequired ==
    Done =>
        IF LeadingComma \/ DoubleComma
        THEN /\ ret.kind = "Err"
             /\ rootValue = Fail
             /\ ~HasPlus => failedAt >= 0 /\ ByteAt(failedAt) = ch.comma
        ELSE ~HasPlus => ret = Ok(ref)

\* an array of two elements or an object of two fields, written with
\* no comma at all, were parsed
C11_Witness ==
    /\ Done /\ ret = Ok(ref)
    /\ NoComma
    /\ \/ ref.tag = "Array" /\ Len(ref.items) = 2
       \/ ref.tag = "Object" /\ DOMAIN ref.fields = Keys

(***************************************************************************)
(* Bytes after the root.  The texts of SpecTrailing are a root document of *)
(* less than MaxNodes nodes, a gap of whitespace and a remainder that does *)
(* not start with whitespace: nothing, one token, or a few longer texts.   *)
(* ref.tree is the tree of the root and ref.end the length of the root,    *)
(* the gap and the ',' the remainder starts with, if it does.              *)
(***************************************************************************)
Compact ==
    [pad |-> <<>>, sep |-> <<ch.comma>>, colon |-> <<ch.colon>>,
     trailRoot |-> <<>>, trailNested |-> <<>>]

RootGaps == {<<>>, <<ch.space>>, <<ch.lf, ch.tab>>}

Remainders ==
    {t \in TokenTexts(1) \cup
             { <<ch.lbrace, ch.rbrace>>,
               <<ch.comma, ch.comma>>,
               <<ch.comma, ch.space, ch.x>>,
               <<ch.comma, ch.lbracket, ch.zero + 1, ch.rbracket>> } :
        t = <<>> \/ ~IsControlChar(t[1])}

InitTrailing ==
    \E n \in 1..(MaxNodes - 1) :
    \E doc \in Collections(n, Compact, FALSE), gap \in RootGaps, rest \in Remainders :
        Start(doc.text \o gap \o rest,
              Frame("parse", "start"),
              [tree |-> doc.tree,
               end  |-> Len(doc.text) + Len(gap)
                        + (IF rest # <<>> /\ rest[1] = ch.comma THEN 1 ELSE 0)])

SpecTrailing == InitTrailing /\ [][NextValid]_vars

\* C12: parse succeeds with the root whatever follows it.  The cursor never
\* goes past the root, the whitespace after it and one following comma, so
\* no byte behind that point is read, and parse returns Ok with the root's
\* tree and the cursor at that point for every remainder of the input.
\* (A root with '+' in a number is rejected with or without a remainder.)
C12_RemainingBytesIgnored ==
    /\ index <= ref.end
    /\ (Done /\ ~HasPlus) => ret = Ok(ref.tree) /\ index = ref.end

\* parse returned Ok with the root while another value, a closing bracket,
\* a second comma or a stray byte was left at the cursor
C12_Witness ==
    /\ Done /\ ret = Ok(ref.tree)
    /\ index = ref.end
    /\ HasByte(index)
    /\ ByteAt(index) \in {ch.x, ch.lbrace, ch.lbracket, ch.rbracket, ch.comma, ch.space}

====
